---------------------------- MODULE Spec2Model ----------------------------
(***************************************************************************)
(* Model of the device synchronization subsystem of roon-volume-marantz:   *)
(* the per-receiver MarantzClient (marantz-client.js) and the VolumeControl *)
(* coordinator (volume-control.js), with the settings that drive           *)
(* (re)initialization (settings.js, app.js).                               *)
(*                                                                         *)
(* Volumes are integers counted in tenths of a display unit (50.5 on the   *)
(* receiver's display is 505; -29.5 dB is -295).  JavaScript strings are    *)
(* sequences of one-character strings.  null is the empty tuple and a       *)
(* number n is the one-element tuple <<n>>.                                 *)
(*                                                                         *)
(* Time is abstracted: a timer is either pending or has fired; a pending    *)
(* setTimeout(200) means "less than 200 ms have elapsed since it was set".  *)
(***************************************************************************)
EXTENDS Integers, Sequences, FiniteSets, Bags, TLC

VARIABLES
    settings,               \* the persisted settings (roon.load_config('settings'))
    clients,                \* VolumeControl.clients: array index -> client object id
    volumeControls,         \* VolumeControl.volumeControls: array index -> host-visible state
    volumeDebounceTimers,   \* VolumeControl.volumeDebounceTimers: Map index -> timer
    timers,                 \* pending setTimeout callbacks (debounce, 500 ms and 1 s polls)
    heap,                   \* the MarantzClient objects ever constructed, by object id
    http,                   \* HTTP requests sent and not yet answered (a bag)
    errors,                 \* failed commands per index and mode, failed polls per index
    calls,                  \* how often the host has called: lifecycle, set_volume, set_mute
    burst,                  \* per index, the set_volume requests since the last expiry
    limits,                 \* the bounds of the run: how many calls the host makes
    reported,               \* the status each receiver reports while it is left alone
    codec                   \* the state of the volume conversion round trip

vars == <<settings, clients, volumeControls, volumeDebounceTimers, timers,
          heap, http, errors, calls, burst, limits, reported, codec>>

-----------------------------------------------------------------------------
(* JavaScript values *)

null == <<>>

Num(n) == <<n>>

Bool(b) == <<b>>

\* x || 0 on a number-or-null
OrZero(x) == IF x = null THEN 0 ELSE x[1]

DigitChars == <<"0", "1", "2", "3", "4", "5", "6", "7", "8", "9">>

IsDigit(c) == \E d \in 1..10 : DigitChars[d] = c

DigitVal(c) == (CHOOSE d \in 1..10 : DigitChars[d] = c) - 1

RECURSIVE NatToString(_)
NatToString(n) ==
    IF n < 10 THEN <<DigitChars[n + 1]>>
    ELSE NatToString(n \div 10) \o <<DigitChars[(n % 10) + 1]>>

Abs(n) == IF n < 0 THEN 0 - n ELSE n

\* Number.prototype.toString / toFixed(0) of an integer
IntToString(n) == (IF n < 0 THEN <<"-">> ELSE <<>>) \o NatToString(Abs(n))

\* String(x) of a number given in tenths: "-29.5", "50", "0.5"
NumberToString(t) ==
    (IF t < 0 THEN <<"-">> ELSE <<>>)
        \o NatToString(Abs(t) \div 10)
        \o (IF Abs(t) % 10 = 0 THEN <<>> ELSE <<".", DigitChars[(Abs(t) % 10) + 1]>>)

RECURSIVE DigitRun(_, _)
\* the number of consecutive digits of s from position i on
DigitRun(s, i) ==
    IF i <= Len(s) /\ IsDigit(s[i]) THEN 1 + DigitRun(s, i + 1) ELSE 0

RECURSIVE DigitsValue(_)
DigitsValue(s) ==
    IF s = <<>> THEN 0
    ELSE 10 * DigitsValue(SubSeq(s, 1, Len(s) - 1)) + DigitVal(s[Len(s)])

\* parseFloat: an optional sign, digits, an optional fraction; anything after
\* is ignored; null stands for NaN.  The result is in tenths (one fractional
\* digit is kept, which is all a half-step value has).
ParseFloat(s) ==
    LET signed == Len(s) > 0 /\ s[1] \in {"-", "+"}
        start == IF signed THEN 2 ELSE 1
        n == DigitRun(s, start)
        dot == start + n
        hasDot == dot <= Len(s) /\ s[dot] = "."
        m == IF hasDot THEN DigitRun(s, dot + 1) ELSE 0
        mag == 10 * DigitsValue(SubSeq(s, start, dot - 1))
                 + (IF m > 0 THEN DigitVal(s[dot + 1]) ELSE 0)
    IN  IF n = 0 /\ m = 0 THEN null
        ELSE Num(IF signed /\ s[1] = "-" THEN 0 - mag ELSE mag)

\* What the XML parser hands over as <tag><value>..</value></tag>: a number
\* (numeric text is converted) or a string.

NumberValue(t) == [type |-> "number", n |-> t, s |-> <<>>]

StringValue(str) == [type |-> "string", n |-> 0, s |-> str]

\* !x
Falsy(x) ==
    \/ x.type = "undefined"
    \/ x.type = "number" /\ x.n = 0
    \/ x.type = "string" /\ x.s = <<>>

\* String(x)
JsString(x) == IF x.type = "number" THEN NumberToString(x.n) ELSE x.s

-----------------------------------------------------------------------------
(* MarantzClient: volume conversion *)

\* a parseVolume for which "--" is as unknown as a missing value
parseVolume_SentinelUnknown(volumeStr) ==
    IF Falsy(volumeStr) THEN null
    ELSE LET dbValue == ParseFloat(JsString(volumeStr))
         IN  IF dbValue = null THEN null ELSE Num(dbValue[1] + 800)

parseVolume(volumeStr) ==
    IF Falsy(volumeStr) THEN null
    ELSE LET str == JsString(volumeStr)
             dbValue == ParseFloat(str)
         IN  IF str = <<"-", "-">> \/ str = <<>> THEN Num(0)
             ELSE IF dbValue = null THEN null
             ELSE Num(dbValue[1] + 800)

\* Math.floor in the place of Math.round
RoundHalf_Floor(t) == 5 * ((2 * t) \div 10)

\* Math.round(displayValue * 2) / 2, in tenths
RoundHalf(t) == 5 * ((2 * t + 5) \div 10)

\* a half step written with its decimal point, "50.5"
formatVolume_Decimal(displayValue) == NumberToString(RoundHalf(displayValue))

formatVolume(displayValue) ==
    LET rounded == RoundHalf(displayValue)
    IN  IF rounded % 10 = 0 THEN IntToString(rounded \div 10)
        ELSE IntToString(rounded)

-----------------------------------------------------------------------------
(* Bounds and inputs *)

\* volumeConfig.min and volumeConfig.max, in display units
volume_min == 0

volume_max == 98

\* the display values 0, 0.5, 1, ..., 98, in tenths
DisplayValues == {5 * h : h \in (2 * volume_min)..(2 * volume_max)}

\* calls the host makes: core_paired, core_unpaired, save_settings, set_volume,
\* set_mute
MaxCalls == 3

\* status requests of one client awaiting their answer when the interval fires
MaxPolls == 1

\* requests the host makes of two paired receivers
PairCalls == 2

PairPolls == 1

\* requests the host makes of one paired receiver whose report stays the same
LiveCalls == 2

LivePolls == 1

\* lifecycle calls the host makes of one paired receiver that is only polled
LifecycleCalls == 2

\* failed polls per index the run keeps count of
PollFaults == 1

\* calls of startPolling, stopPolling and destroy on one client
ClientCalls == 4

\* receiver slots of the settings dialog
Slots == limits.slots

\* array indexes the host may address (one more than can hold a client)
Indexes == 0..Cardinality(limits.slots)

\* req.body of set_volume, values in tenths
VolumeBodies ==
    {[mode |-> "absolute", value |-> 300], [mode |-> "absolute", value |-> 600],
     [mode |-> "relative", value |-> 50],
     [mode |-> "relative_step", value |-> 10], [mode |-> "relative_step", value |-> -10],
     [mode |-> "relative_step", value |-> 0]}

MuteActions == {"mute", "unmute"}

\* status documents: MasterVolume -20 dB, 0 dB, "--"; Mute on, off
StatusReports ==
    {[volume |-> NumberValue(-200), mute |-> "on"],
     [volume |-> NumberValue(0), mute |-> "off"],
     [volume |-> StringValue(<<"-", "-">>), mute |-> "off"]}

PairBodies ==
    {[mode |-> "absolute", value |-> 600], [mode |-> "relative_step", value |-> 10]}

PairReports ==
    {[volume |-> NumberValue(-200), mute |-> "on"],
     [volume |-> StringValue(<<"-", "-">>), mute |-> "off"]}

\* the answers of the receiver while the host reconfigures: -20 dB muted, and
\* 0 dB
LifecycleReports ==
    {[volume |-> NumberValue(-200), mute |-> "on"],
     [volume |-> NumberValue(0), mute |-> "off"]}

SettingsValues ==
    {[receiver_count |-> n, ip_address |-> S] : n \in Slots, S \in SUBSET Slots}

-----------------------------------------------------------------------------
(* Arrays, bags *)

\* a JavaScript array as a function on 0..length-1
Length(a) == Cardinality(DOMAIN a)

Has(a, index) == index \in DOMAIN a

Count(bag, e) == CopiesIn(e, bag)

Add(bag, e) == bag (+) SetToBag({e})

Remove(bag, e) == bag (-) SetToBag({e})

-----------------------------------------------------------------------------
(* SettingsManager *)

RECURSIVE ReceiversUpTo(_, _)
\* the loop of getReceivers over i = 1..count, as a sequence of receivers
ReceiversUpTo(s, i) ==
    IF i = 0 THEN <<>>
    ELSE ReceiversUpTo(s, i - 1)
            \o (IF i \in s.ip_address THEN <<[index |-> i]>> ELSE <<>>)

getReceivers(s) ==
    LET list == ReceiversUpTo(s, s.receiver_count)
    IN  [arrayIndex \in 0..(Len(list) - 1) |-> list[arrayIndex + 1]]

-----------------------------------------------------------------------------
(* Objects *)

\* new MarantzClient(...): constructor, then startPolling's setInterval
NewClient(receiver) ==
    [currentVolume |-> null, currentMute |-> null, pollInterval |-> TRUE,
     listeners |-> TRUE, receiver |-> receiver.index]

\* the n-th client object built by the k-th initialize()
ClientId(k, arrayIndex) == <<k, arrayIndex>>

StatusRequest(c) ==
    [client |-> c, cmd |-> "STATUS", arg |-> <<>>, index |-> c[2],
     mode |-> "", target |-> null, burst |-> 0]

\* a command sent by the debounce callback of handleSetVolume; burst notes
\* how many requests that callback answers
VolumeCommand(t, cmd, arg, target) ==
    [client |-> t.client, cmd |-> cmd, arg |-> arg, index |-> t.index,
     mode |-> t.mode, target |-> target,
     burst |-> IF Has(burst, t.index) THEN burst[t.index].n ELSE 0]

MuteCommand(c, index, mute) ==
    [client |-> c, cmd |-> IF mute THEN "MUON" ELSE "MUOFF", arg |-> <<>>,
     index |-> index, mode |-> "mute", target |-> null, burst |-> 0]

DebounceTimer(index, c, body) ==
    [delay |-> 200, index |-> index, client |-> c, mode |-> body.mode,
     value |-> body.value, after |-> ""]

\* setTimeout(() => { if (this.clients[index]) this.clients[index].getStatus() }, delay)
\* after notes the command whose completion set the timer
PollTimer(index, delay, after) ==
    [delay |-> delay, index |-> index, client |-> <<>>, mode |-> "",
     value |-> 0, after |-> after]

IsDebounce(t) == t.delay = 200

DebounceTimers == {t \in BagToSet(timers) : IsDebounce(t)}

StatusRequests(c) == Count(http, StatusRequest(c))

Commands == {r \in BagToSet(http) : r.cmd # "STATUS"}

\* the objects a callback, a pending request or the coordinator still holds;
\* the others are garbage
Collect(h, cl, ht, tm) ==
    [c \in {d \in DOMAIN h :
                \/ \E i \in DOMAIN cl : cl[i] = d
                \/ \E r \in BagToSet(ht) : r.client = d
                \/ \E t \in BagToSet(tm) : t.client = d} |-> h[c]]

-----------------------------------------------------------------------------
(* MarantzClient *)

\* getStatus(): the request is sent; the rest runs when the answer arrives
getStatus(h, c) == Add(h, StatusRequest(c))

\* setVolume(value): sendCommand(`MV${formatVolume(value)}`)
setVolume(h, t, value) == Add(h, VolumeCommand(t, "MV", formatVolume(value), Num(value)))

\* client.destroy(): stopPolling(), removeAllListeners()
DestroyClient(o) == [o EXCEPT !.pollInterval = FALSE, !.listeners = FALSE]

-----------------------------------------------------------------------------
(* VolumeControl *)

\* updateVolumeState(index, volume)
updateVolumeState(vcs, index, volume) ==
    IF Has(vcs, index) THEN [vcs EXCEPT ![index].volume_value = volume] ELSE vcs

\* updateMuteState(index, mute)
updateMuteState(vcs, index, mute) ==
    IF Has(vcs, index) THEN [vcs EXCEPT ![index].is_muted = mute] ELSE vcs

\* registerVolumeControl: the state handed to new_device
NewControl(receiver, client) ==
    [volume_value |-> OrZero(client.currentVolume),
     is_muted |-> (client.currentMute # null /\ client.currentMute[1]),
     control_key |-> receiver.index]

\* a destroy() that clears no timer
TimersAfterDestroy_None == timers

\* the timers destroy() leaves pending: it clears the timers of the map only
TimersAfterDestroy ==
    LET cleared == {volumeDebounceTimers[i] : i \in DOMAIN volumeDebounceTimers}
    IN  [t \in {u \in BagToSet(timers) : u \notin cleared} |-> timers[t]]

HeapAfterDestroy ==
    [c \in DOMAIN heap |->
        IF \E i \in DOMAIN clients : clients[i] = c THEN DestroyClient(heap[c])
        ELSE heap[c]]

\* destroy()
Destroy ==
    /\ timers' = TimersAfterDestroy
    /\ volumeDebounceTimers' = <<>>
    /\ clients' = <<>>
    /\ volumeControls' = <<>>
    /\ burst' = <<>>
    /\ UNCHANGED <<http, errors>>
    /\ heap' = Collect(HeapAfterDestroy, clients', http', timers')

\* the client objects the k-th initialize() constructs
Built(receivers, k) == {ClientId(k, i) : i \in DOMAIN receivers}

\* this.clients after initializeReceiver ran for each receiver
ClientsBuilt(receivers, k) == [i \in DOMAIN receivers |-> ClientId(k, i)]

\* this.volumeControls after registerVolumeControl ran for each receiver
ControlsBuilt(receivers) ==
    [i \in DOMAIN receivers |-> NewControl(receivers[i], NewClient(receivers[i]))]

\* client.getStatus() and the getStatus() of client.startPolling(5), per client
FirstPolls(receivers, k) == [r \in {StatusRequest(c) : c \in Built(receivers, k)} |-> 2]

\* initialize(): getReceivers, destroy, then initializeReceiver for each one
Initialize(s, k) ==
    LET receivers == getReceivers(s)
    IN  IF Length(receivers) = 0
        THEN UNCHANGED <<clients, volumeControls, volumeDebounceTimers, timers,
                         heap, http, errors, burst>>
        ELSE /\ timers' = TimersAfterDestroy
             /\ burst' = <<>>
             /\ volumeDebounceTimers' = <<>>
             /\ clients' = ClientsBuilt(receivers, k)
             /\ volumeControls' = ControlsBuilt(receivers)
             /\ http' = http (+) FirstPolls(receivers, k)
             /\ UNCHANGED errors
             /\ heap' = Collect([c \in DOMAIN heap \cup Built(receivers, k) |->
                                    IF c \in Built(receivers, k)
                                    THEN NewClient(receivers[c[2]])
                                    ELSE HeapAfterDestroy[c]],
                                clients', http', timers')

-----------------------------------------------------------------------------
(* The host: app.js *)

\* the calls the host has made so far
CallsMade == calls.lifecycle + calls.requests + calls.mutes

\* core_paired: volumeControl.initialize()
CorePaired ==
    /\ CallsMade < limits.calls
    /\ Initialize(settings, calls.lifecycle + 1)
    /\ calls' = [calls EXCEPT !.lifecycle = @ + 1]
    /\ UNCHANGED <<settings, limits, reported, codec>>

\* core_unpaired, SIGINT, SIGTERM: volumeControl.destroy()
CoreUnpaired ==
    /\ CallsMade < limits.calls
    /\ Destroy
    /\ calls' = [calls EXCEPT !.lifecycle = @ + 1]
    /\ UNCHANGED <<settings, limits, reported, codec>>

\* save_settings with changed values: save, then onChange -> updateSettings
SaveSettings(newSettings) ==
    /\ CallsMade < limits.calls
    /\ newSettings # settings
    /\ settings' = newSettings
    /\ Initialize(newSettings, calls.lifecycle + 1)
    /\ calls' = [calls EXCEPT !.lifecycle = @ + 1]
    /\ UNCHANGED <<limits, reported, codec>>

-----------------------------------------------------------------------------
(* VolumeControl: requests *)

\* the requests for index since its timer last ran or was cleared, req included
Requested(index, body) ==
    [i \in DOMAIN burst \cup {index} |->
        IF i = index
        THEN [n |-> (IF Has(burst, index) THEN burst[index].n ELSE 0) + 1, body |-> body]
        ELSE burst[i]]

\* handleSetVolume without its clearTimeout: the earlier timer stays armed
HandleSetVolume_NoClear(index, body) ==
    /\ CallsMade < limits.calls
    /\ calls' = [calls EXCEPT !.requests = @ + 1]
    /\ IF ~Has(clients, index)
       THEN UNCHANGED <<timers, volumeDebounceTimers, burst>>
       ELSE LET timer == DebounceTimer(index, clients[index], body)
            IN  /\ timers' = Add(timers, timer)
                /\ burst' = Requested(index, body)
                /\ volumeDebounceTimers' =
                       [i \in DOMAIN volumeDebounceTimers \cup {index} |->
                           IF i = index THEN timer ELSE volumeDebounceTimers[i]]
    /\ UNCHANGED <<settings, clients, volumeControls, heap, http, errors,
                   limits, reported, codec>>

\* handleSetVolume(req, index)
HandleSetVolume(index, body) ==
    /\ CallsMade < limits.calls
    /\ calls' = [calls EXCEPT !.requests = @ + 1]
    /\ IF ~Has(clients, index)
       THEN UNCHANGED <<timers, volumeDebounceTimers, burst>>
       ELSE LET pending == Has(volumeDebounceTimers, index)
                old == volumeDebounceTimers[index]
                kept == IF pending THEN Remove(timers, old) ELSE timers
                timer == DebounceTimer(index, clients[index], body)
            IN  /\ timers' = Add(kept, timer)
                /\ burst' = Requested(index, body)
                /\ volumeDebounceTimers' =
                       [i \in DOMAIN volumeDebounceTimers \cup {index} |->
                           IF i = index THEN timer ELSE volumeDebounceTimers[i]]
    /\ UNCHANGED <<settings, clients, volumeControls, heap, http, errors,
                   limits, reported, codec>>

\* a callback that steps up whatever the sign of the value
CommitRequest_StepsUp(h, t) ==
    CASE t.mode = "absolute" -> setVolume(h, t, t.value)
      [] t.mode = "relative" ->
            setVolume(h, t, OrZero(heap[t.client].currentVolume) + t.value)
      [] t.mode = "relative_step" /\ t.value # 0 ->
            Add(h, VolumeCommand(t, "MVUP", <<>>, null))
      [] OTHER -> h

\* the commands the debounce callback sends before its first await
CommitRequest(h, t) ==
    CASE t.mode = "absolute" -> setVolume(h, t, t.value)
      [] t.mode = "relative" ->
            setVolume(h, t, OrZero(heap[t.client].currentVolume) + t.value)
      [] t.mode = "relative_step" /\ t.value > 0 ->
            Add(h, VolumeCommand(t, "MVUP", <<>>, null))
      [] t.mode = "relative_step" /\ t.value < 0 ->
            Add(h, VolumeCommand(t, "MVDN", <<>>, null))
      [] OTHER -> h

\* a callback that schedules the 500 ms poll of a step before its await
TimersAfterCommit_Eager(ts, t) ==
    IF t.mode = "relative_step"
    THEN Add(ts, PollTimer(t.index, 500, ""))
    ELSE ts

\* the timers the debounce callback sets before its first await: a step of 0
\* awaits nothing and goes straight on to setTimeout(.., 500)
TimersAfterCommit(ts, t) ==
    IF t.mode = "relative_step" /\ t.value = 0
    THEN Add(ts, PollTimer(t.index, 500, ""))
    ELSE ts

\* a callback that leaves its entry in the debounce map
DebounceElapsed_KeepsEntry(t) ==
    /\ t \in DebounceTimers
    /\ http' = CommitRequest(http, t)
    /\ timers' = TimersAfterCommit(Remove(timers, t), t)
    /\ burst' = [i \in DOMAIN burst \ {t.index} |-> burst[i]]
    /\ UNCHANGED <<settings, clients, volumeControls, volumeDebounceTimers, heap,
                   errors, calls, limits, reported, codec>>

\* the setTimeout callback of handleSetVolume, up to its first await
DebounceElapsed(t) ==
    /\ t \in DebounceTimers
    /\ volumeDebounceTimers' =
           [i \in DOMAIN volumeDebounceTimers \ {t.index} |-> volumeDebounceTimers[i]]
    /\ http' = CommitRequest(http, t)
    /\ timers' = TimersAfterCommit(Remove(timers, t), t)
    /\ burst' = [i \in DOMAIN burst \ {t.index} |-> burst[i]]
    /\ UNCHANGED <<settings, clients, volumeControls, heap, errors, calls,
                   limits, reported, codec>>

\* a callback that leaves the target to the confirming poll
Applies_Never(r) == FALSE

\* whether the callback after a successful await applies the target
Applies(r) == r.mode # "relative_step" /\ r.target # null /\ Has(volumeControls, r.index)

\* a callback that, after a step, moves the cached volume by the step it guesses
AfterCommand_StepGuess(r) ==
    /\ volumeControls' = volumeControls
    /\ timers' = Add(timers, PollTimer(r.index, 500, r.cmd))
    /\ heap' = Collect([heap EXCEPT ![r.client].currentVolume = Num(OrZero(@) + 5)],
                       clients, http', timers')
    /\ UNCHANGED errors

\* a callback that shows the host the target and leaves the cache to the poll
AfterCommand_HostOnly(r) ==
    /\ volumeControls' =
           IF Applies(r)
           THEN [volumeControls EXCEPT ![r.index].volume_value = r.target[1]]
           ELSE volumeControls
    /\ timers' = Add(timers, PollTimer(r.index,
                                        IF r.mode = "relative_step" THEN 500 ELSE 1000,
                                        r.cmd))
    /\ heap' = Collect(heap, clients, http', timers')
    /\ UNCHANGED errors

\* the callback after a successful await client.setVolume / volumeUp / volumeDown
AfterCommand(r) ==
    /\ volumeControls' =
           IF Applies(r)
           THEN [volumeControls EXCEPT ![r.index].volume_value = r.target[1]]
           ELSE volumeControls
    /\ timers' = Add(timers, PollTimer(r.index,
                                        IF r.mode = "relative_step" THEN 500 ELSE 1000,
                                        r.cmd))
    /\ heap' = Collect(IF Applies(r)
                       THEN [heap EXCEPT ![r.client].currentVolume = r.target]
                       ELSE heap,
                       clients, http', timers')
    /\ UNCHANGED errors

\* a catch block that applies the target all the same
AfterFailure_Applies(r) ==
    /\ errors' = [errors EXCEPT ![r.index][r.mode] = @ + 1]
    /\ volumeControls' =
           IF r.target # null /\ Has(volumeControls, r.index)
           THEN [volumeControls EXCEPT ![r.index].volume_value = r.target[1]]
           ELSE volumeControls
    /\ heap' = Collect(heap, clients, http', timers)
    /\ UNCHANGED timers

\* a catch block that resets what the host is shown for every receiver
AfterFailure_ResetsAll(r) ==
    /\ errors' = [errors EXCEPT ![r.index][r.mode] = @ + 1]
    /\ volumeControls' =
           [i \in DOMAIN volumeControls |-> [volumeControls[i] EXCEPT !.volume_value = 0]]
    /\ heap' = Collect(heap, clients, http', timers)
    /\ UNCHANGED timers

\* a catch block that tries the request again after 200 ms
AfterFailure_Retries(r) ==
    /\ errors' = [errors EXCEPT ![r.index][r.mode] = @ + 1]
    /\ timers' = Add(timers, DebounceTimer(r.index, r.client,
                                            [mode |-> r.mode, value |-> OrZero(r.target)]))
    /\ heap' = Collect(heap, clients, http', timers')
    /\ UNCHANGED volumeControls

\* the catch block of handleSetVolume / handleSetMute: console.error
AfterFailure(r) ==
    /\ errors' = [errors EXCEPT ![r.index][r.mode] = @ + 1]
    /\ heap' = Collect(heap, clients, http', timers)
    /\ UNCHANGED <<volumeControls, timers>>

\* sendCommand resolves: response.ok
CommandSucceeds(r) ==
    /\ r \in Commands
    /\ http' = Remove(http, r)
    /\ IF r.mode = "mute"
       THEN /\ heap' = Collect(heap, clients, http', timers)
            /\ UNCHANGED <<volumeControls, timers, errors>>
       ELSE AfterCommand(r)
    /\ UNCHANGED <<settings, clients, volumeDebounceTimers, calls, burst, limits,
                   reported, codec>>

\* sendCommand throws: transport error, timeout after 5 s, or !response.ok
CommandFails(r) ==
    /\ r \in Commands
    /\ http' = Remove(http, r)
    /\ AfterFailure(r)
    /\ UNCHANGED <<settings, clients, volumeDebounceTimers, calls, burst, limits,
                   reported, codec>>

\* the callback of setTimeout(.., 500) and setTimeout(.., 1000)
PollTimerElapsed(t) ==
    /\ t \in BagToSet(timers)
    /\ ~IsDebounce(t)
    /\ timers' = Remove(timers, t)
    /\ http' = IF Has(clients, t.index) THEN getStatus(http, clients[t.index]) ELSE http
    /\ UNCHANGED <<settings, clients, volumeControls, volumeDebounceTimers, heap,
                   errors, calls, burst, limits, reported, codec>>

\* a handleSetMute that debounces as handleSetVolume does
HandleSetMute_Debounced(index, action) ==
    /\ CallsMade < limits.calls
    /\ calls' = [calls EXCEPT !.mutes = @ + 1]
    /\ timers' = IF Has(clients, index)
                 THEN Add(timers, DebounceTimer(index, clients[index],
                                                [mode |-> "mute", value |-> 0]))
                 ELSE timers
    /\ UNCHANGED <<settings, clients, volumeControls, volumeDebounceTimers, http,
                   heap, errors, burst, limits, reported, codec>>

\* a handleSetMute that shows the host the mute it asks for right away
HandleSetMute_Optimistic(index, action) ==
    /\ CallsMade < limits.calls
    /\ calls' = [calls EXCEPT !.mutes = @ + 1]
    /\ http' = IF Has(clients, index)
               THEN Add(http, MuteCommand(clients[index], index, action = "mute"))
               ELSE http
    /\ volumeControls' = updateMuteState(volumeControls, index, action = "mute")
    /\ UNCHANGED <<settings, clients, volumeDebounceTimers, timers, heap, errors,
                   burst, limits, reported, codec>>

\* a handleSetMute that sends its command whether or not the index holds a
\* client
HandleSetMute_Unguarded(index, action) ==
    /\ CallsMade < limits.calls
    /\ calls' = [calls EXCEPT !.mutes = @ + 1]
    /\ http' = Add(http, MuteCommand(IF Has(clients, index) THEN clients[index] ELSE null,
                                     index, action = "mute"))
    /\ UNCHANGED <<settings, clients, volumeControls, volumeDebounceTimers, timers,
                   heap, errors, burst, limits, reported, codec>>

\* handleSetMute(req, index)
HandleSetMute(index, action) ==
    /\ CallsMade < limits.calls
    /\ calls' = [calls EXCEPT !.mutes = @ + 1]
    /\ http' = IF Has(clients, index)
               THEN Add(http, MuteCommand(clients[index], index, action = "mute"))
               ELSE http
    /\ UNCHANGED <<settings, clients, volumeControls, volumeDebounceTimers, timers,
                   heap, errors, burst, limits, reported, codec>>

-----------------------------------------------------------------------------
(* MarantzClient: polling *)

\* the setInterval callback of startPolling
PollInterval(c) ==
    /\ c \in DOMAIN heap
    /\ heap[c].pollInterval
    /\ StatusRequests(c) < limits.polls
    /\ http' = getStatus(http, c)
    /\ UNCHANGED <<settings, clients, volumeControls, volumeDebounceTimers, timers,
                   heap, errors, calls, burst, limits, reported, codec>>

\* a listener that withholds a change while the confirming poll of a command
\* for its index is scheduled
EmitVolumeChanged_Suppressed(vcs, c, volume) ==
    IF heap[c].listeners /\ Count(timers, PollTimer(c[2], 1000, "MV")) = 0
    THEN updateVolumeState(vcs, c[2], volume)
    ELSE vcs

\* the listeners initializeReceiver registered, with its index in their closure
EmitVolumeChanged(vcs, c, volume) ==
    IF heap[c].listeners THEN updateVolumeState(vcs, c[2], volume) ELSE vcs

\* a mute listener that shows the host nothing
EmitMuteChanged_Unheard(vcs, c, mute) == vcs

EmitMuteChanged(vcs, c, mute) ==
    IF heap[c].listeners THEN updateMuteState(vcs, c[2], mute) ELSE vcs

\* getStatus() after the answer: parse, compare with the cache, emit
StatusReceived(c, status) ==
    LET volume == parseVolume(status.volume)
        mute == (status.mute = "on")
        volumeNew == volume # null /\ volume # heap[c].currentVolume
        muteNew == Bool(mute) # heap[c].currentMute
        afterVolume == IF volumeNew THEN EmitVolumeChanged(volumeControls, c, volume[1])
                       ELSE volumeControls
    IN  /\ StatusRequests(c) > 0
        /\ http' = Remove(http, StatusRequest(c))
        /\ heap' = Collect([heap EXCEPT
                               ![c].currentVolume = IF volumeNew THEN volume ELSE @,
                               ![c].currentMute = IF muteNew THEN Bool(mute) ELSE @],
                           clients, http', timers)
        /\ volumeControls' = IF muteNew THEN EmitMuteChanged(afterVolume, c, mute)
                             ELSE afterVolume
        /\ UNCHANGED <<settings, clients, volumeDebounceTimers, timers, errors,
                       calls, burst, limits, reported, codec>>

\* a status request answered by a receiver whose state is anything
PollSucceeds(c, status) == StatusReceived(c, status)

\* how many failed polls per index the run keeps count of
Faults == IF "faults" \in DOMAIN limits THEN limits.faults ELSE 0

\* one more, as far as the run keeps count
Counted(n) == IF n < Faults THEN n + 1 ELSE n

\* this.emit('error', error): the listener of initializeReceiver logs it; with
\* no listener left emit throws, inside the catch block of an async function,
\* and the promise of getStatus() is rejected with nobody awaiting it
EmitError(c) ==
    [errors EXCEPT ![c[2]].poll = Counted(@),
                   ![c[2]].rejected = IF heap[c].listeners THEN @ ELSE Counted(@)]

\* getStatus() catches: transport error, timeout, !response.ok, unparsable
PollFails(c) ==
    /\ StatusRequests(c) > 0
    /\ http' = Remove(http, StatusRequest(c))
    /\ heap' = Collect(heap, clients, http', timers)
    /\ errors' = EmitError(c)
    /\ UNCHANGED <<settings, clients, volumeControls, volumeDebounceTimers, timers,
                   calls, burst, limits, reported, codec>>

-----------------------------------------------------------------------------
(* The system *)

NoErrors ==
    [i \in Indexes |-> [absolute |-> 0, relative |-> 0, relative_step |-> 0, mute |-> 0,
                        poll |-> 0, rejected |-> 0]]

\* SettingsManager.defaults, nothing persisted
Defaults == [receiver_count |-> 1, ip_address |-> {}]

\* after the constructors of app.js
Constructed(l) ==
    /\ limits = l
    /\ settings = Defaults
    /\ clients = <<>>
    /\ volumeControls = <<>>
    /\ volumeDebounceTimers = <<>>
    /\ timers = EmptyBag
    /\ heap = <<>>
    /\ http = EmptyBag
    /\ errors = NoErrors
    /\ calls = [lifecycle |-> 0, requests |-> 0, mutes |-> 0]
    /\ burst = <<>>

\* after core_paired found the settings s persisted and initialize() ran
Paired(l, s) ==
    /\ limits = l
    /\ settings = s
    /\ clients = ClientsBuilt(getReceivers(s), 0)
    /\ volumeControls = ControlsBuilt(getReceivers(s))
    /\ volumeDebounceTimers = <<>>
    /\ timers = EmptyBag
    /\ heap = [c \in Built(getReceivers(s), 0) |-> NewClient(getReceivers(s)[c[2]])]
    /\ http = FirstPolls(getReceivers(s), 0)
    /\ errors = NoErrors
    /\ calls = [lifecycle |-> 0, requests |-> 0, mutes |-> 0]
    /\ burst = <<>>

Init ==
    /\ Constructed([calls |-> MaxCalls, polls |-> MaxPolls, slots |-> {1},
                    bodies |-> VolumeBodies, reports |-> LifecycleReports])
    /\ reported = <<>>
    /\ codec = <<>>

Next ==
    \/ CorePaired
    \/ CoreUnpaired
    \/ \E s \in SettingsValues : SaveSettings(s)
    \/ \E i \in Indexes, b \in limits.bodies : HandleSetVolume(i, b)
    \/ \E i \in Indexes, a \in MuteActions : HandleSetMute(i, a)
    \/ \E t \in DebounceTimers : DebounceElapsed(t)
    \/ \E t \in BagToSet(timers) : PollTimerElapsed(t)
    \/ \E r \in Commands : CommandSucceeds(r)
    \/ \E r \in Commands : CommandFails(r)
    \/ \E c \in DOMAIN heap : PollInterval(c)
    \/ \E c \in DOMAIN heap, st \in limits.reports : PollSucceeds(c, st)
    \/ \E c \in DOMAIN heap : PollFails(c)

Spec == Init /\ [][Next]_vars

\* two receivers, paired; the host only sends requests
PairInit ==
    /\ Paired([calls |-> PairCalls, polls |-> PairPolls, slots |-> {1, 2},
               bodies |-> PairBodies, reports |-> PairReports],
              [receiver_count |-> 2, ip_address |-> {1, 2}])
    /\ reported = <<>>
    /\ codec = <<>>

PairNext ==
    \/ \E i \in Indexes, b \in limits.bodies : HandleSetVolume(i, b)
    \/ \E i \in Indexes, a \in MuteActions : HandleSetMute(i, a)
    \/ \E t \in DebounceTimers : DebounceElapsed(t)
    \/ \E t \in BagToSet(timers) : PollTimerElapsed(t)
    \/ \E r \in Commands : CommandSucceeds(r)
    \/ \E r \in Commands : CommandFails(r)
    \/ \E c \in DOMAIN heap : PollInterval(c)
    \/ \E c \in DOMAIN heap, st \in limits.reports : PollSucceeds(c, st)
    \/ \E c \in DOMAIN heap : PollFails(c)

PairSpec == PairInit /\ [][PairNext]_vars

-----------------------------------------------------------------------------
(* Steps, as they show in a pair of states *)

\* the host called initialize(), updateSettings() or destroy()
LifecycleStep == calls'.lifecycle # calls.lifecycle

\* the host called set_volume or set_mute
RequestStep == calls'.requests # calls.requests \/ calls'.mutes # calls.mutes

\* the debounce timer t ran its callback: only a callback takes a debounce
\* timer away without a call of the host
Expired(t) ==
    /\ t \in DebounceTimers
    /\ Count(timers', t) < Count(timers, t)
    /\ calls' = calls

\* the requests sent and the timers set in the step
Sent == http' (-) http

TimersSet == timers' (-) timers

\* the volume commands sent in the step
CommandsSent == {r \in BagToSet(Sent) : r.cmd \in {"MV", "MVUP", "MVDN"}}

\* the command r got its answer: resolved, or thrown into the catch block
Resolved(r) ==
    /\ r \in Commands
    /\ Count(http', r) < Count(http, r)
    /\ errors' = errors

Thrown(r) ==
    /\ r \in Commands
    /\ Count(http', r) < Count(http, r)
    /\ errors'[r.index][r.mode] = errors[r.index][r.mode] + 1

\* a status request of client c got its answer
PollAnswered(c) == Count(http', StatusRequest(c)) < Count(http, StatusRequest(c))

\* no cache and no state shown to the host is written in the step
CachesKept ==
    /\ volumeControls' = volumeControls
    /\ \A c \in DOMAIN heap' : c \in DOMAIN heap /\ heap'[c] = heap[c]

\* the command that carries the request body for index i on client c
Carries(r, i, c, body) ==
    /\ r.index = i
    /\ r.client = c
    /\ r.mode = body.mode
    /\ CASE body.mode = "absolute" ->
                r.cmd = "MV" /\ r.target = Num(body.value)
         [] body.mode = "relative" ->
                /\ r.cmd = "MV"
                /\ r.target = Num(OrZero(heap[c].currentVolume) + body.value)
         [] OTHER ->
                r.cmd = IF body.value > 0 THEN "MVUP" ELSE "MVDN"

-----------------------------------------------------------------------------
(* C1 *)

\* the step sends one volume command, the one of the last request for index i
OneCommandOfLast(i) ==
    /\ Has(burst, i)
    /\ Has(clients, i)
    /\ Sent = SetToBag(CommandsSent)
    /\ Cardinality(CommandsSent) = 1
    /\ \A r \in CommandsSent : Carries(r, i, clients[i], burst[i].body)

\* C1 as stated: whenever the debounce timer of an index runs its callback,
\* exactly one device command is sent for all the requests the index received
\* since its timer last ran, and it carries the mode and value of the last of
\* them; no volume command is sent in any other step.
C1_OneCommandPerBurst ==
    [][/\ \A t \in DebounceTimers : Expired(t) => OneCommandOfLast(t.index)
       /\ CommandsSent # {} => \E t \in DebounceTimers : Expired(t)]_vars

\* C1 amended: whenever the debounce timer of an index runs its callback, the
\* requests the index received since its timer last ran lead to at most one
\* device command: exactly one, carrying the mode and value of the last of
\* them, unless that last request is a relative_step of 0, for which nothing
\* is sent; no volume command is sent in any other step.
C1_OneCommandUnlessZeroStep ==
    [][/\ \A t \in DebounceTimers : Expired(t) =>
              IF /\ Has(burst, t.index)
                 /\ burst[t.index].body = [mode |-> "relative_step", value |-> 0]
              THEN Sent = EmptyBag
              ELSE OneCommandOfLast(t.index)
       /\ CommandsSent # {} => \E t \in DebounceTimers : Expired(t)]_vars

\* a command is in flight that answers a burst of two or more requests
C1_Witness ==
    \E r \in Commands : r.burst >= 2 /\ r.cmd = "MV" /\ r.target = Num(600)

-----------------------------------------------------------------------------
(* C2 *)

\* C2 as stated: a call of updateSettings, initialize or destroy leaves no
\* debounce timer pending, so the callback of a timer that was pending when
\* the call came never runs.
C2_NoDebounceAfterLifecycle ==
    [][LifecycleStep => DebounceTimers' = {}]_vars

-----------------------------------------------------------------------------
(* C3 *)

\* C3 as stated: a destroy() or a reinitialization that replaces the clients
\* leaves no timer of before pending (debounce, 1 s confirming poll, 500 ms
\* step poll) and no polling interval armed on a client it tore down.
C3_TeardownCancelsTimers ==
    [][LifecycleStep /\ clients' # clients =>
          /\ timers' = EmptyBag
          /\ \A i \in DOMAIN clients :
                (\A j \in DOMAIN clients' : clients'[j] # clients[i])
                    /\ clients[i] \in DOMAIN heap' =>
                        ~heap'[clients[i]].pollInterval]_vars

-----------------------------------------------------------------------------
(* C4 *)

\* C4 as stated: a poll of the client at index i that completes while the
\* window of a successful absolute or relative command for i is armed pushes
\* nothing to the host. The window is the span of about 1 s after the
\* command: its confirming poll is scheduled and has not run.
C4_PollSuppressedInWindow ==
    [][\A i \in DOMAIN clients :
          Count(timers, PollTimer(i, 1000, "MV")) > 0
                  /\ PollAnswered(clients[i]) =>
              volumeControls' = volumeControls]_vars

-----------------------------------------------------------------------------
(* C5 *)

\* all that the coordinator and the client hold for index i
Receiver(i) ==
    [cache |-> heap[clients[i]],
     control |-> volumeControls[i],
     debounce |-> IF Has(volumeDebounceTimers, i) THEN <<volumeDebounceTimers[i]>>
                  ELSE <<>>,
     timers |-> [t \in {u \in BagToSet(timers) : u.index = i} |-> timers[t]],
     requests |-> [r \in {q \in BagToSet(http) : q.index = i} |-> http[r]]]

Failures(i) ==
    errors[i].absolute + errors[i].relative + errors[i].relative_step + errors[i].mute

\* C5: with receivers at index 0 and 1, a step in which a volume or mute
\* command of index 1 fails leaves the cache of the client of index 0, the
\* state shown to the host for 0, its pending debounce timer, its poll timers
\* and its requests in flight unchanged; and once index 1 has failed, a
\* request for index 0 still arms the timer of index 0 and that timer, when it
\* elapses, still sends exactly the command of the last request to the client
\* of index 0.
C5_FailureIsLocal ==
    [][/\ (\E r \in Commands : r.index = 1 /\ Thrown(r)) => Receiver(0)' = Receiver(0)
       /\ Failures(1) > 0 /\ RequestStep /\ burst' # burst /\ Has(burst', 0) =>
              /\ Has(volumeDebounceTimers', 0)
              /\ Count(timers', volumeDebounceTimers'[0]) = 1
              /\ volumeDebounceTimers'[0] =
                     DebounceTimer(0, clients[0], burst'[0].body)
       /\ \A t \in DebounceTimers :
              Failures(1) > 0 /\ t.index = 0 /\ Expired(t) => OneCommandOfLast(0)]_vars

\* a command of index 1 has failed and a command of index 0 is in flight to
\* the client of index 0, whose cache and host state a poll has set
C5_Witness ==
    /\ Failures(1) > 0
    /\ \E r \in Commands : r.index = 0 /\ r.client = clients[0] /\ r.cmd = "MV"
    /\ heap[clients[0]].currentVolume = Num(600)
    /\ volumeControls[0].volume_value = 600

-----------------------------------------------------------------------------
(* C6 *)

\* C6: when the debounce timer of a relative_step request with a positive
\* value elapses, exactly one volume-up command is sent and nothing else; when
\* that command completes, exactly one poll timer of 500 ms is set and nothing
\* is sent; when a poll timer runs, one status request is sent to the client
\* of its index; and none of these steps, nor the request itself, writes a
\* cached volume or the volume shown to the host.
C6_StepUpThenOnePoll ==
    [][/\ \A t \in DebounceTimers :
              t.mode = "relative_step" /\ t.value > 0 /\ Expired(t) =>
                  /\ Sent = SetToBag({VolumeCommand(t, "MVUP", <<>>, null)})
                  /\ TimersSet = EmptyBag
                  /\ CachesKept
       /\ \A r \in Commands :
              r.cmd = "MVUP" /\ Resolved(r) =>
                  /\ TimersSet = SetToBag({PollTimer(r.index, 500, "MVUP")})
                  /\ Sent = EmptyBag
                  /\ CachesKept
       /\ \A t \in BagToSet(timers) :
              ~IsDebounce(t) /\ Count(timers', t) < Count(timers, t) =>
                  /\ Sent = IF Has(clients, t.index)
                            THEN SetToBag({StatusRequest(clients[t.index])})
                            ELSE EmptyBag
                  /\ TimersSet = EmptyBag
                  /\ CachesKept
       /\ RequestStep => CachesKept]_vars

\* the volume-up command of a step request has completed and its one poll is
\* scheduled; a poll had set the cache before
C6_Witness ==
    /\ Count(timers, PollTimer(0, 500, "MVUP")) = 1
    /\ Has(clients, 0)
    /\ heap[clients[0]].currentVolume = Num(600)
    /\ volumeControls[0].volume_value = 600

-----------------------------------------------------------------------------
(* C7 *)

\* C7: from the request to the failure of the command of an absolute or
\* relative request the coordinator writes no cached volume and no volume
\* shown to the host: not when the request comes, not when its timer elapses
\* (which takes the timer of the index away), and not when the command
\* fails; the failing step sets no timer, arms no debounce timer and sends
\* nothing.
C7_FailureAppliesNothing ==
    [][/\ \A r \in Commands :
              r.mode \in {"absolute", "relative"} /\ Thrown(r) =>
                  /\ CachesKept
                  /\ timers' = timers
                  /\ volumeDebounceTimers' = volumeDebounceTimers
                  /\ http' = Remove(http, r)
       /\ \A t \in DebounceTimers :
              t.mode \in {"absolute", "relative"} /\ Expired(t) =>
                  /\ CachesKept
                  /\ ~Has(volumeDebounceTimers', t.index)
       /\ RequestStep => CachesKept]_vars

\* an absolute command has failed; cache and host state are those of the last
\* poll, no timer is pending and no command is in flight
C7_Witness ==
    /\ Has(clients, 0)
    /\ errors[0].absolute = 1
    /\ heap[clients[0]].currentVolume = Num(600)
    /\ volumeControls[0].volume_value = 600
    /\ timers = EmptyBag
    /\ Commands = {}

-----------------------------------------------------------------------------
(* C8 *)

\* C8: in the step in which the command of an absolute or relative request
\* completes without error, the target of the command becomes the volume_value
\* shown to the host for the index of the request, if the index has a control;
\* no status answer is taken in that step.
C8_TargetShownAtCompletion ==
    [][\A r \in Commands :
          r.mode \in {"absolute", "relative"} /\ Resolved(r)
              /\ Has(volumeControls, r.index) =>
                  /\ Has(volumeControls', r.index)
                  /\ volumeControls'[r.index].volume_value = r.target[1]
                  /\ \A c \in DOMAIN heap : ~PollAnswered(c)]_vars

\* the host is shown the target 30 of a completed absolute command (no poll
\* of the model reports 30) while the confirming poll is still scheduled and
\* every status request has been answered
C8_Witness ==
    /\ Has(volumeControls, 0)
    /\ volumeControls[0].volume_value = 300
    /\ Count(timers, PollTimer(0, 1000, "MV")) = 1
    /\ StatusRequests(clients[0]) = 0

-----------------------------------------------------------------------------
(* One receiver, paired, whose report stays the same and whose polls succeed *)

LiveInit ==
    /\ Paired([calls |-> LiveCalls, polls |-> LivePolls, slots |-> {1},
               bodies |-> PairBodies, reports |-> StatusReports],
              [receiver_count |-> 1, ip_address |-> {1}])
    /\ reported \in StatusReports
    /\ codec = <<>>

\* a status request answered with what the receiver reports
PollReported(c) == StatusReceived(c, reported)

CommandAnswered == \E r \in Commands : CommandSucceeds(r) \/ CommandFails(r)

LiveNext ==
    \/ \E i \in Indexes, b \in limits.bodies : HandleSetVolume(i, b)
    \/ \E t \in DebounceTimers : DebounceElapsed(t)
    \/ \E t \in BagToSet(timers) : PollTimerElapsed(t)
    \/ CommandAnswered
    \/ \E c \in DOMAIN heap : PollInterval(c)
    \/ \E c \in DOMAIN heap : PollReported(c)

\* timers run when their time has come, setInterval keeps ticking, every
\* request gets its answer
LiveSpec ==
    /\ LiveInit
    /\ [][LiveNext]_vars
    /\ WF_vars(\E t \in DebounceTimers : DebounceElapsed(t))
    /\ WF_vars(\E t \in BagToSet(timers) : PollTimerElapsed(t))
    /\ WF_vars(CommandAnswered)
    /\ WF_vars(\E c \in DOMAIN heap : PollInterval(c))
    /\ WF_vars(\E c \in DOMAIN heap : PollReported(c))

-----------------------------------------------------------------------------
(* C9 *)

\* the display volume of a report: decibels + 80, and 0 for the "--" token
Display(status) ==
    IF status.volume.type = "number" THEN status.volume.n + 800 ELSE 0

\* C9 as stated: with a receiver whose report stays the same and whose polls
\* succeed, the volume_value shown to the host is, from some point on, the
\* display volume of that report.
C9_HostShowsReported ==
    <>[](/\ Has(volumeControls, 0)
         /\ volumeControls[0].volume_value = Display(reported))

-----------------------------------------------------------------------------
(* The volume conversion on its own: display value -> MV token -> parseVolume *)

NoRun == [calls |-> 0, polls |-> 0, slots |-> {}, bodies |-> {}, reports |-> {}]

CodecInit ==
    /\ Constructed(NoRun)
    /\ reported = <<>>
    /\ \E v \in DisplayValues :
          codec = [pc |-> "input", value |-> v, token |-> <<>>, decoded |-> null]

\* formatVolume(value)
Encode ==
    /\ codec.pc = "input"
    /\ codec' = [codec EXCEPT !.pc = "encoded", !.token = formatVolume(codec.value)]
    /\ UNCHANGED <<settings, clients, volumeControls, volumeDebounceTimers, timers,
                   heap, http, errors, calls, burst, limits, reported>>

\* parseVolume(token)
Decode ==
    /\ codec.pc = "encoded"
    /\ codec' = [codec EXCEPT !.pc = "decoded",
                              !.decoded = parseVolume(StringValue(codec.token))]
    /\ UNCHANGED <<settings, clients, volumeControls, volumeDebounceTimers, timers,
                   heap, http, errors, calls, burst, limits, reported>>

CodecNext == Encode \/ Decode

CodecSpec == CodecInit /\ [][CodecNext]_vars

-----------------------------------------------------------------------------
(* C10 *)

\* C10 as stated: for every display value v in {0, 0.5, ..., 98}, parseVolume
\* of the token formatVolume(v) is v.
C10_RoundTrip ==
    codec.pc = "decoded" => codec.decoded = Num(codec.value)

\* C10 amended: formatVolume writes display units (the digits of v, or of 10 v
\* for a half step) and parseVolume reads decibels and adds 80, so parseVolume
\* of the token formatVolume(v) is v + 80 for a whole v and 10 v + 80 for a
\* half step.
C10_RoundTripOffset ==
    codec.pc = "decoded" =>
        codec.decoded = Num(IF codec.value % 10 = 0 THEN codec.value + 800
                            ELSE 10 * codec.value + 800)

\* a half step and a whole value have been encoded and decoded
C10_Witness ==
    /\ codec.pc = "decoded"
    /\ codec.value = 505
    /\ codec.token = <<"5", "0", "5">>

-----------------------------------------------------------------------------
(* formatVolume on every tenth of [0, 98] *)

\* the inputs 0, 0.1, 0.2, ..., 98, in tenths
FormatInit ==
    /\ Constructed(NoRun)
    /\ reported = <<>>
    /\ \E v \in (10 * volume_min)..(10 * volume_max) :
          codec = [pc |-> "input", value |-> v, token |-> <<>>, decoded |-> null]

FormatNext == Encode

FormatSpec == FormatInit /\ [][FormatNext]_vars

-----------------------------------------------------------------------------
(* C11 *)

\* a number written with its digits only: no sign, no point, no leading zero
PlainDigits(token) ==
    /\ Len(token) >= 1
    /\ \A i \in 1..Len(token) : IsDigit(token[i])
    /\ Len(token) > 1 => token[1] # "0"

\* C11: for every input in [0, 98], the token of formatVolume is the plain
\* digits of the half step h/2 nearest to the input: of h/2 itself when it is
\* whole, of ten times h/2 when it is not; 50 gives "50", 50.5 gives "505" and
\* 0 gives "0".
C11_EncodingFormat ==
    codec.pc = "encoded" =>
        /\ \E h \in (2 * volume_min)..(2 * volume_max) :
              /\ 2 * Abs(codec.value - 5 * h) < 5
              /\ PlainDigits(codec.token)
              /\ DigitsValue(codec.token) = IF h % 2 = 0 THEN h \div 2 ELSE 5 * h
        /\ codec.value = 500 => codec.token = <<"5", "0">>
        /\ codec.value = 505 => codec.token = <<"5", "0", "5">>
        /\ codec.value = 0 => codec.token = <<"0">>

\* 50.3 has been rounded to 50.5 and written "505"
C11_Witness ==
    /\ codec.pc = "encoded"
    /\ codec.value = 503
    /\ codec.token = <<"5", "0", "5">>

-----------------------------------------------------------------------------
(* One receiver, paired, near the ends of its range *)

\* relative requests of 5 down and 5 up, an absolute request of 98
RangeBodies ==
    {[mode |-> "relative", value |-> -50], [mode |-> "relative", value |-> 50],
     [mode |-> "absolute", value |-> 10 * volume_max]}

\* the receiver reports "--" (display 0) or +17 dB (display 97)
RangeReports ==
    {[volume |-> StringValue(<<"-", "-">>), mute |-> "off"],
     [volume |-> NumberValue(170), mute |-> "off"]}

RangeInit ==
    /\ Paired([calls |-> LiveCalls, polls |-> LivePolls, slots |-> {1},
               bodies |-> RangeBodies, reports |-> RangeReports],
              [receiver_count |-> 1, ip_address |-> {1}])
    /\ reported \in RangeReports
    /\ codec = <<>>

RangeSpec == RangeInit /\ [][LiveNext]_vars

-----------------------------------------------------------------------------
(* C12 *)

\* C12 as stated: every set-volume command in flight carries a level within
\* [0, 98].
C12_LevelInRange ==
    \A r \in Commands :
        r.cmd = "MV" =>
            /\ r.target # null
            /\ r.target[1] \in (10 * volume_min)..(10 * volume_max)
            /\ PlainDigits(r.arg)

-----------------------------------------------------------------------------
(* One receiver, paired and left alone, polled while its report stays the same *)

\* the answers: a number of decibels (-80, -79.5, ..., 18, in tenths), or
\* the "--" token
DecodeReports ==
    {[volume |-> NumberValue(5 * h - 800), mute |-> "off"] :
        h \in (2 * volume_min)..(2 * volume_max)}
        \cup {[volume |-> StringValue(<<"-", "-">>), mute |-> "off"]}

DecodeInit ==
    /\ Paired([calls |-> 0, polls |-> LivePolls, slots |-> {1},
               bodies |-> {}, reports |-> DecodeReports],
              [receiver_count |-> 1, ip_address |-> {1}])
    /\ reported \in DecodeReports
    /\ codec = <<>>

DecodeNext ==
    \/ \E c \in DOMAIN heap : PollInterval(c)
    \/ \E c \in DOMAIN heap : PollReported(c)

DecodeSpec == DecodeInit /\ [][DecodeNext]_vars

-----------------------------------------------------------------------------
(* C13 *)

\* C13 as stated: when a status request is answered with d decibels, d in
\* {-80, -79.5, ..., 18}, the cache of the client holds the display volume
\* d + 80 after the step.
C13_PollStoresDisplay ==
    [][\A c \in DOMAIN heap :
          PollAnswered(c) /\ reported.volume.type = "number" =>
              heap'[c].currentVolume = Num(reported.volume.n + 800)]_vars

-----------------------------------------------------------------------------
(* C14 *)

-----------------------------------------------------------------------------
(* One receiver, paired and polled, while the host pairs, unpairs and saves *)

LifecycleInit ==
    /\ Paired([calls |-> LifecycleCalls, polls |-> LivePolls, faults |-> PollFaults,
               slots |-> {1}, bodies |-> {}, reports |-> PairReports],
              [receiver_count |-> 1, ip_address |-> {1}])
    /\ reported = <<>>
    /\ codec = <<>>

LifecycleNext ==
    \/ CorePaired
    \/ CoreUnpaired
    \/ \E s \in SettingsValues : SaveSettings(s)
    \/ \E c \in DOMAIN heap : PollInterval(c)
    \/ \E c \in DOMAIN heap, st \in limits.reports : PollSucceeds(c, st)
    \/ \E c \in DOMAIN heap : PollFails(c)

LifecycleSpec == LifecycleInit /\ [][LifecycleNext]_vars

-----------------------------------------------------------------------------
(* C15 *)

\* a status request of client c failed
PollFailed(c) == PollAnswered(c) /\ errors'[c[2]].poll > errors[c[2]].poll

\* C15 as stated: a step in which a status request of a client fails changes
\* no cached volume or mute and nothing shown to the host, rejects no promise
\* (getStatus returns without throwing) and leaves the polling interval of
\* the client as it was.
C15_PollFailureIsQuiet ==
    [][\A c \in DOMAIN heap :
          PollFailed(c) =>
              /\ CachesKept
              /\ errors'[c[2]].rejected = errors[c[2]].rejected
              /\ c \in DOMAIN heap' => heap'[c].pollInterval = heap[c].pollInterval]_vars

-----------------------------------------------------------------------------
(* C16 *)

\* the volume commands of index i sent and not yet answered
VolumeCommandsInFlight(i) ==
    LET cs == {r \in Commands : r.index = i /\ r.cmd \in {"MV", "MVUP", "MVDN"}}
    IN  BagCardinality([r \in cs |-> http[r]])

\* C16 as stated: for no index are two volume commands in flight at once.
C16_OneCommandInFlight ==
    \A i \in Indexes : VolumeCommandsInFlight(i) <= 1

-----------------------------------------------------------------------------
(* C17 *)

\* C17 as stated: after updateSettings every client the coordinator held
\* before is out of the client array, with its polling stopped and its
\* listeners released, and the client and control arrays hold exactly one
\* new entry per receiver of the new list, from index 0 on, also when the new
\* list is empty.
C17_FullReinitialization ==
    [][settings' # settings =>
          /\ \A i \in DOMAIN clients :
                /\ \A j \in DOMAIN clients' : clients'[j] # clients[i]
                /\ clients[i] \in DOMAIN heap' =>
                       /\ ~heap'[clients[i]].pollInterval
                       /\ ~heap'[clients[i]].listeners
          /\ DOMAIN clients' = DOMAIN getReceivers(settings')
          /\ DOMAIN volumeControls' = DOMAIN getReceivers(settings')]_vars

-----------------------------------------------------------------------------
(* C18 *)

\* the host called set_mute
MuteStep == calls'.mutes # calls.mutes

-----------------------------------------------------------------------------
(* One client and its polling loop: startPolling, stopPolling, destroy *)

\* the client of initializeReceiver before its startPolling
TheClient == ClientId(0, 0)

\* the k-th call armed this setInterval of client c; 5 s is the interval of
\* initializeReceiver
IntervalTimer(c, k) ==
    [delay |-> 5000, index |-> c[2], client |-> c, mode |-> "", value |-> k,
     after |-> ""]

\* the setInterval timers of client c that are armed
IntervalTimers(c) == {t \in BagToSet(timers) : t.delay = 5000 /\ t.client = c}

\* clearInterval(this.pollInterval): this.pollInterval is assigned by
\* startPolling only, so it holds the handle of the latest setInterval
TimersAfterStop(c) ==
    IF heap[c].pollInterval /\ IntervalTimers(c) # {}
    THEN Remove(timers, CHOOSE t \in IntervalTimers(c) :
                            \A u \in IntervalTimers(c) : u.value <= t.value)
    ELSE timers

\* startPolling without its stopPolling
StartPolling_NoStop(c) ==
    /\ c \in DOMAIN heap
    /\ CallsMade < limits.calls
    /\ calls' = [calls EXCEPT !.lifecycle = @ + 1]
    /\ http' = getStatus(http, c)
    /\ timers' = Add(timers, IntervalTimer(c, CallsMade + 1))
    /\ heap' = [heap EXCEPT ![c].pollInterval = TRUE]
    /\ UNCHANGED <<settings, clients, volumeControls, volumeDebounceTimers, errors,
                   burst, limits, reported, codec>>

\* startPolling(5)
StartPolling(c) ==
    /\ c \in DOMAIN heap
    /\ CallsMade < limits.calls
    /\ calls' = [calls EXCEPT !.lifecycle = @ + 1]
    /\ http' = getStatus(http, c)
    /\ timers' = Add(TimersAfterStop(c), IntervalTimer(c, CallsMade + 1))
    /\ heap' = [heap EXCEPT ![c].pollInterval = TRUE]
    /\ UNCHANGED <<settings, clients, volumeControls, volumeDebounceTimers, errors,
                   burst, limits, reported, codec>>

\* stopPolling()
StopPolling(c) ==
    /\ c \in DOMAIN heap
    /\ CallsMade < limits.calls
    /\ calls' = [calls EXCEPT !.lifecycle = @ + 1]
    /\ timers' = TimersAfterStop(c)
    /\ heap' = [heap EXCEPT ![c].pollInterval = FALSE]
    /\ UNCHANGED <<settings, clients, volumeControls, volumeDebounceTimers, http,
                   errors, burst, limits, reported, codec>>

\* client.destroy(): stopPolling(), removeAllListeners()
ClientDestroy(c) ==
    /\ c \in DOMAIN heap
    /\ CallsMade < limits.calls
    /\ calls' = [calls EXCEPT !.lifecycle = @ + 1]
    /\ timers' = TimersAfterStop(c)
    /\ heap' = [heap EXCEPT ![c] = DestroyClient(@)]
    /\ UNCHANGED <<settings, clients, volumeControls, volumeDebounceTimers, http,
                   errors, burst, limits, reported, codec>>

\* the setInterval callback: this.getStatus()
IntervalElapsed(t) ==
    /\ t \in BagToSet(timers)
    /\ t.delay = 5000
    /\ StatusRequests(t.client) < limits.polls
    /\ http' = getStatus(http, t.client)
    /\ UNCHANGED <<settings, clients, volumeControls, volumeDebounceTimers, timers,
                   heap, errors, calls, burst, limits, reported, codec>>

ClientInit ==
    /\ limits = [calls |-> ClientCalls, polls |-> LivePolls, slots |-> {1},
                 bodies |-> {}, reports |-> PairReports]
    /\ settings = [receiver_count |-> 1, ip_address |-> {1}]
    /\ clients = ClientsBuilt(getReceivers(settings), 0)
    /\ volumeControls = ControlsBuilt(getReceivers(settings))
    /\ volumeDebounceTimers = <<>>
    /\ timers = EmptyBag
    /\ heap = [c \in {TheClient} |->
                  [NewClient(getReceivers(settings)[0]) EXCEPT !.pollInterval = FALSE]]
    /\ http = EmptyBag
    /\ errors = NoErrors
    /\ calls = [lifecycle |-> 0, requests |-> 0, mutes |-> 0]
    /\ burst = <<>>
    /\ reported = <<>>
    /\ codec = <<>>

ClientNext ==
    \/ StartPolling(TheClient)
    \/ StopPolling(TheClient)
    \/ ClientDestroy(TheClient)
    \/ \E t \in BagToSet(timers) : IntervalElapsed(t)
    \/ \E st \in limits.reports : PollSucceeds(TheClient, st)
    \/ PollFails(TheClient)

ClientSpec == ClientInit /\ [][ClientNext]_vars

-----------------------------------------------------------------------------
(* C19 *)

\* C19: at all times at most one setInterval timer of the client is armed,
\* and one is armed exactly while the client holds a handle; a step in which
\* startPolling runs leaves its own timer as the only one armed and sends
\* exactly one status request.
C19_OnePollingLoop ==
    /\ [](/\ BagCardinality([t \in IntervalTimers(TheClient) |-> timers[t]]) <= 1
          /\ heap[TheClient].pollInterval <=> IntervalTimers(TheClient) # {})
    /\ [][(\E t \in BagToSet(TimersSet) : t.delay = 5000) =>
              /\ timers' = SetToBag({IntervalTimer(TheClient, CallsMade + 1)})
              /\ Sent = SetToBag({StatusRequest(TheClient)})]_vars

\* startPolling has run twice in a row: the timer of the second call is armed,
\* two immediate polls are in flight
C19_Witness ==
    /\ calls.lifecycle = 2
    /\ IntervalTimers(TheClient) = {IntervalTimer(TheClient, 2)}
    /\ StatusRequests(TheClient) = 2

-----------------------------------------------------------------------------
(* C20 *)

\* the state destroy() leaves: nothing held, every client object destroyed
Destroyed ==
    /\ clients = <<>>
    /\ volumeControls = <<>>
    /\ volumeDebounceTimers = <<>>
    /\ DebounceTimers = {}
    /\ \A c \in DOMAIN heap : ~heap[c].pollInterval /\ ~heap[c].listeners

\* C20: destroy() of a client applied twice leaves what one application
\* leaves; a lifecycle call that leaves the coordinator without clients
\* leaves it destroyed (no polling interval, no listeners, empty client and
\* control arrays, empty debounce map, no debounce timer); and such a call on
\* a coordinator that is destroyed already changes nothing and logs no error.
C20_DestroyIsIdempotent ==
    /\ [](\A c \in DOMAIN heap :
             DestroyClient(DestroyClient(heap[c])) = DestroyClient(heap[c]))
    /\ [][LifecycleStep /\ clients' = <<>> =>
              /\ Destroyed'
              /\ Destroyed =>
                     UNCHANGED <<clients, volumeControls, volumeDebounceTimers,
                                 timers, heap, http, errors, burst>>]_vars

\* destroy() has run on a coordinator that was destroyed already: a receiver
\* was configured, three lifecycle calls were made, nothing is held, and the
\* destroyed client still awaits the answers of its first two polls
C20_Witness ==
    /\ Destroyed
    /\ calls.lifecycle = 3
    /\ settings.ip_address = {1}
    /\ \E c \in DOMAIN heap : StatusRequests(c) = 2

-----------------------------------------------------------------------------
(* One receiver, paired, stepped up and down *)

\* requests the host makes of one paired receiver it steps
StepCalls == 2

\* the requests: steps up and down, and an absolute request of 30
StepInit ==
    /\ Paired([calls |-> StepCalls, polls |-> LivePolls, slots |-> {1},
               bodies |-> {[mode |-> "relative_step", value |-> 10],
                           [mode |-> "relative_step", value |-> -10],
                           [mode |-> "absolute", value |-> 300]},
               reports |-> PairReports],
              [receiver_count |-> 1, ip_address |-> {1}])
    /\ reported = <<>>
    /\ codec = <<>>

StepSpec == StepInit /\ [][PairNext]_vars

-----------------------------------------------------------------------------
(* C21 *)

\* C21: the step that sends a volume-up or volume-down command, the step in
\* which such a command completes and the step in which it fails all leave
\* every client's cached volume and cached mute as they were; a cached volume
\* changes only in a step in which a status request of that client is
\* answered or a set-volume command of that client completes.
C21_StepKeepsCache ==
    [][LET ClientCachesKept ==
               \A c \in DOMAIN heap \cap DOMAIN heap' :
                   /\ heap'[c].currentVolume = heap[c].currentVolume
                   /\ heap'[c].currentMute = heap[c].currentMute
       IN  /\ \A t \in DebounceTimers :
                  t.mode = "relative_step" /\ Expired(t) => ClientCachesKept
           /\ \A r \in Commands :
                  r.cmd \in {"MVUP", "MVDN"} /\ (Resolved(r) \/ Thrown(r)) =>
                      ClientCachesKept
           /\ \A c \in DOMAIN heap \cap DOMAIN heap' :
                  heap'[c].currentVolume # heap[c].currentVolume =>
                      \/ PollAnswered(c)
                      \/ \E r \in Commands :
                            r.cmd = "MV" /\ r.client = c /\ Resolved(r)]_vars

\* a volume-down command has failed and another has completed (its 500 ms
\* poll is scheduled); the cache still holds what the first polls stored
C21_Witness ==
    /\ errors[0].relative_step = 1
    /\ Count(timers, PollTimer(0, 500, "MVDN")) = 1
    /\ heap[clients[0]].currentVolume = Num(600)
    /\ heap[clients[0]].currentMute = Bool(TRUE)

-----------------------------------------------------------------------------
(* C22 *)

\* the client the coordinator holds at the index it was built for
Held(c) == Has(clients, c[2]) /\ clients[c[2]] = c

-----------------------------------------------------------------------------
(* Two receiver slots, configured, reconfigured and used *)

\* calls the host makes with the two slots
ConfigCalls == 2

\* one absolute request of 60
ConfigBodies == {[mode |-> "absolute", value |-> 600]}

\* the receivers answer -20 dB, muted
ConfigReports == {[volume |-> NumberValue(-200), mute |-> "on"]}

ConfigInit ==
    /\ Constructed([calls |-> ConfigCalls, polls |-> PairPolls, slots |-> {1, 2},
                    bodies |-> ConfigBodies, reports |-> ConfigReports])
    /\ reported = <<>>
    /\ codec = <<>>

ConfigSpec == ConfigInit /\ [][Next]_vars

-----------------------------------------------------------------------------
(* C23 *)

\* C23 as stated: the client and the control of the receiver at configuration
\* position p are both at array index p - 1, the two arrays have the same
\* length and no holes, and the steps a request for index i leads to (its
\* timer running, its command completing or failing) send commands to index i
\* only and write the host state of index i only.
C23_IndexCorrelation ==
    /\ [](/\ DOMAIN clients = DOMAIN volumeControls
          /\ DOMAIN clients = 0..(Length(clients) - 1)
          /\ \A i \in DOMAIN clients :
                /\ heap[clients[i]].receiver = i + 1
                /\ volumeControls[i].control_key = i + 1)
    /\ [][LET OnlyIndex(i) ==
                  /\ \A r \in BagToSet(Sent) : r.index = i
                  /\ \A j \in DOMAIN volumeControls \cap DOMAIN volumeControls' :
                        j # i => volumeControls'[j] = volumeControls[j]
          IN  /\ \A t \in DebounceTimers : Expired(t) => OnlyIndex(t.index)
              /\ \A r \in Commands :
                    Resolved(r) \/ Thrown(r) => OnlyIndex(r.index)]_vars

-----------------------------------------------------------------------------
(* One receiver, paired, that is unreachable for a while and answers again *)

\* requests the host makes of the receiver that drops out
RecoveryCalls == 1

\* polls of one client that fail in a run
RecoveryFaults == 2

\* when the receiver answers it reports -20 dB muted, 0 dB or "--"
RecoveryInit ==
    /\ Paired([calls |-> RecoveryCalls, polls |-> LivePolls, faults |-> RecoveryFaults,
               slots |-> {1}, bodies |-> ConfigBodies, reports |-> StatusReports],
              [receiver_count |-> 1, ip_address |-> {1}])
    /\ reported \in StatusReports
    /\ codec = <<>>

\* somebody turns the knob of the receiver or mutes it: from now on it
\* reports st
ReceiverChanged(st) ==
    /\ st # reported
    /\ reported' = st
    /\ UNCHANGED <<settings, clients, volumeControls, volumeDebounceTimers, timers,
                   heap, http, errors, calls, burst, limits, codec>>

RecoveryNext ==
    \/ \E i \in Indexes, b \in limits.bodies : HandleSetVolume(i, b)
    \/ \E t \in DebounceTimers : DebounceElapsed(t)
    \/ \E t \in BagToSet(timers) : PollTimerElapsed(t)
    \/ CommandAnswered
    \/ \E c \in DOMAIN heap : PollInterval(c)
    \/ \E c \in DOMAIN heap : PollReported(c)
    \/ \E c \in DOMAIN heap : errors[c[2]].poll < Faults /\ PollFails(c)
    \/ \E st \in limits.reports : ReceiverChanged(st)

RecoverySpec == RecoveryInit /\ [][RecoveryNext]_vars

-----------------------------------------------------------------------------
(* C24 *)

\* C24 as stated: a failed poll leaves the polling interval of the client
\* armed; after one or more failed polls, the step in which a status request
\* of the client is answered again stores the reported display volume and
\* mute in the cache and, where the cached volume changes, shows the new
\* volume to the host; and after failed polls the debounce timer of a request
\* still sends exactly the command of the request.
C24_PollRecovers ==
    [][/\ \A c \in DOMAIN heap :
              Held(c) /\ PollFailed(c) =>
                  /\ heap'[c].pollInterval
                  /\ timers' = timers
                  /\ volumeDebounceTimers' = volumeDebounceTimers
       /\ \A c \in DOMAIN heap :
              Held(c) /\ errors[c[2]].poll > 0 /\ PollAnswered(c) /\ ~PollFailed(c) =>
                  /\ heap'[c].currentVolume = Num(Display(reported))
                  /\ heap'[c].currentMute = Bool(reported.mute = "on")
                  /\ heap'[c].currentVolume # heap[c].currentVolume =>
                         volumeControls'[c[2]].volume_value = Display(reported)
       /\ \A t \in DebounceTimers :
              errors[t.index].poll > 0 /\ Expired(t) => OneCommandOfLast(t.index)]_vars

-----------------------------------------------------------------------------
(* C25 *)

\* C25 as stated: with a receiver whose report stays the same, the step in
\* which a status request is answered leaves the reported volume and mute in
\* the cache, whatever else is under way; and whenever all the polls and
\* commands of an index are complete (interval polls, confirming polls,
\* optimistic writes), the cache holds the reported volume and mute, the
\* result of the last poll.
C25_LastPollWins ==
    /\ [][\A c \in DOMAIN heap :
              Held(c) /\ PollAnswered(c) =>
                  /\ heap'[c].currentVolume = Num(Display(reported))
                  /\ heap'[c].currentMute = Bool(reported.mute = "on")]_vars
    /\ [](LET Quiet(i) ==
                  /\ StatusRequests(clients[i]) = 0
                  /\ \A r \in Commands : r.index # i
                  /\ \A t \in BagToSet(timers) : t.index # i
          IN  \A i \in DOMAIN clients :
                  Quiet(i) =>
                      /\ heap[clients[i]].currentVolume = Num(Display(reported))
                      /\ heap[clients[i]].currentMute = Bool(reported.mute = "on"))

-----------------------------------------------------------------------------
(* C26 *)

\* C26 as stated: the cached volume of every client is unknown or a half step
\* within [0, 98].
C26_CacheInRange ==
    \A c \in DOMAIN heap :
        \/ heap[c].currentVolume = null
        \/ heap[c].currentVolume[1] \in DisplayValues

-----------------------------------------------------------------------------
(* The settings dialog: save_settings, with one slot more than the dialog offers *)

MAX_RECEIVERS == 4

\* lifecycle calls the host makes while it saves settings
SettingsCalls == 3

\* parseInt: an optional sign and digits, anything after is ignored; null
\* stands for NaN
ParseInt(s) ==
    LET signed == Len(s) > 0 /\ s[1] \in {"-", "+"}
        start == IF signed THEN 2 ELSE 1
        n == DigitRun(s, start)
        mag == DigitsValue(SubSeq(s, start, start + n - 1))
    IN  IF n = 0 THEN null
        ELSE Num(IF signed /\ s[1] = "-" THEN 0 - mag ELSE mag)

\* parseInt(receiver_count) || 1, what every reader of receiver_count
\* computes and what settings.receiver_count holds in this model
CountOf(text) ==
    LET count == ParseInt(text)
    IN  IF count = null \/ count[1] = 0 THEN 1 ELSE count[1]

\* settings.values of save_settings: receiver_count as the host sends it (the
\* empty string when it sends none), and for some slots an IP address, given
\* as whether it is a non-empty string
DialogValues ==
    {[receiver_count |-> c, ip_address |-> f] :
        c \in {<<>>, <<"0">>, <<"2">>, IntToString(MAX_RECEIVERS),
               IntToString(MAX_RECEIVERS + 1)},
        f \in {[i \in Slots |-> TRUE], [i \in {1} |-> FALSE]}}

\* newSettings of save_settings: the count is taken as sent when it is truthy,
\* then the fields of the slots 1..count are taken when they are sent
save_settings(oldSettings, values) ==
    LET count == IF values.receiver_count = <<>> THEN oldSettings.receiver_count
                 ELSE CountOf(values.receiver_count)
    IN  [receiver_count |-> count,
         ip_address |-> {i \in Slots :
                            IF i <= count /\ i \in DOMAIN values.ip_address
                            THEN values.ip_address[i]
                            ELSE i \in oldSettings.ip_address}]

SettingsInit ==
    /\ Constructed([calls |-> SettingsCalls, polls |-> LivePolls,
                    slots |-> 1..(MAX_RECEIVERS + 1), bodies |-> {},
                    reports |-> ConfigReports])
    /\ reported = <<>>
    /\ codec = <<>>

SettingsNext ==
    \/ CorePaired
    \/ CoreUnpaired
    \/ \E v \in DialogValues : SaveSettings(save_settings(settings, v))

SettingsSpec == SettingsInit /\ [][SettingsNext]_vars

-----------------------------------------------------------------------------
(* C27 *)

\* C27 as stated: for every settings value save_settings stores, getReceivers
\* returns between 0 and 4 receivers, and the coordinator holds at most 4
\* clients.
C27_AtMostFour ==
    /\ Length(getReceivers(settings)) \in 0..MAX_RECEIVERS
    /\ Length(clients) <= MAX_RECEIVERS

-----------------------------------------------------------------------------
(* C28 *)

\* the debounce timers armed for index i, with their multiplicity
ArmedFor(i) ==
    BagCardinality([t \in {u \in DebounceTimers : u.index = i} |-> timers[t]])

\* C28: for every index at most one debounce timer is armed, and the
\* debounce map has an entry for the index exactly when one is armed, which
\* is then the timer of the entry.
C28_OnePendingRequest ==
    \A i \in Indexes :
        /\ ArmedFor(i) <= 1
        /\ Has(volumeDebounceTimers, i) <=> ArmedFor(i) = 1
        /\ Has(volumeDebounceTimers, i) => Count(timers, volumeDebounceTimers[i]) = 1

\* a receiver was configured with one lifecycle call; the timer of the second
\* request of a burst is armed in the place of the timer of the first
C28_Witness ==
    /\ Has(volumeDebounceTimers, 0)
    /\ burst[0].n = 2
    /\ ArmedFor(0) = 1
    /\ calls.lifecycle = 1

-----------------------------------------------------------------------------
(* One receiver, paired, sent requests of every mode *)

\* requests the host makes of the receiver
CommitCalls == 2

CommitInit ==
    /\ Paired([calls |-> CommitCalls, polls |-> LivePolls, slots |-> {1},
               bodies |-> VolumeBodies, reports |-> PairReports],
              [receiver_count |-> 1, ip_address |-> {1}])
    /\ reported = <<>>
    /\ codec = <<>>

CommitSpec == CommitInit /\ [][PairNext]_vars

-----------------------------------------------------------------------------
(* C29 *)

\* the one call the callback of timer t makes of its client, by the mode of
\* the request; the cache is read in the state in which the timer elapses
Translated(t) ==
    CASE t.mode = "absolute" ->
            VolumeCommand(t, "MV", formatVolume(t.value), Num(t.value))
      [] t.mode = "relative" ->
            LET target == OrZero(heap[t.client].currentVolume) + t.value
            IN  VolumeCommand(t, "MV", formatVolume(target), Num(target))
      [] OTHER ->
            VolumeCommand(t, IF t.value > 0 THEN "MVUP" ELSE "MVDN", <<>>, null)

\* C29 as stated: when a debounce timer elapses exactly one command is sent:
\* for absolute, set-volume of the value; for relative, set-volume of the
\* cached volume (0 when unknown) plus the value; for relative_step, volume-up
\* or volume-down by the sign of the value.
C29_CommitTranslation ==
    [][\A t \in DebounceTimers :
          Expired(t) =>
              /\ Sent = SetToBag(CommandsSent)
              /\ Cardinality(CommandsSent) = 1
              /\ t.mode = "relative_step" /\ t.value = 0 =>
                     \A r \in CommandsSent : r.cmd \in {"MVUP", "MVDN"}
              /\ ~(t.mode = "relative_step" /\ t.value = 0) =>
                     CommandsSent = {Translated(t)}]_vars

\* C29 amended: when a debounce timer elapses at most one command is sent:
\* for absolute, set-volume of the value; for relative, set-volume of the
\* cached volume (0 when unknown), read when the timer elapses, plus the
\* value; for relative_step, volume-up for a positive value, volume-down for a
\* negative one and no command at all for the value 0.
C29_CommitTranslationUnlessZero ==
    [][\A t \in DebounceTimers :
          Expired(t) =>
              Sent = IF t.mode = "relative_step" /\ t.value = 0 THEN EmptyBag
                     ELSE SetToBag({Translated(t)})]_vars

\* a relative request of +5 whose timer elapsed when the cache held 60 has its
\* command for 65 in flight, while the receiver's cache has moved to 0 since
C29_Witness ==
    /\ \E r \in Commands :
          r.mode = "relative" /\ r.target = Num(650) /\ r.arg = <<"6", "5">>
    /\ heap[clients[0]].currentVolume = Num(0)

-----------------------------------------------------------------------------
(* One receiver, paired, whose timers run and whose requests get an answer *)

\* requests the host makes of the receiver
MachineCalls == 2

\* the requests: an absolute request of 60, a step up and a step of 0
MachineInit ==
    /\ Paired([calls |-> MachineCalls, polls |-> LivePolls, slots |-> {1},
               bodies |-> PairBodies \cup {[mode |-> "relative_step", value |-> 0]},
               reports |-> PairReports],
              [receiver_count |-> 1, ip_address |-> {1}])
    /\ reported \in PairReports
    /\ codec = <<>>

\* timers run when their time has come, setInterval keeps ticking, every
\* command is answered or times out after 5 s; nothing is assumed of the
\* answers to status requests
MachineSpec ==
    /\ MachineInit
    /\ [][LiveNext]_vars
    /\ WF_vars(\E t \in DebounceTimers : DebounceElapsed(t))
    /\ WF_vars(\E t \in BagToSet(timers) : PollTimerElapsed(t))
    /\ WF_vars(CommandAnswered)
    /\ WF_vars(\E c \in DOMAIN heap : PollInterval(c))

-----------------------------------------------------------------------------
(* C30 *)

\* where index i stands: a debounce timer armed, else a volume command in
\* flight, else neither
State(i) ==
    IF ArmedFor(i) > 0 THEN "Debouncing"
    ELSE IF VolumeCommandsInFlight(i) > 0 THEN "Committing"
    ELSE "Idle"

\* a move of index i from one stand to another by one of the moves the claim
\* has: a request from Idle, the timer elapsing, the command completing or
\* failing
Moves(i) ==
    \/ State(i) = "Idle" /\ State(i)' = "Debouncing" /\ RequestStep
    \/ /\ State(i) = "Debouncing"
       /\ State(i)' = "Committing"
       /\ \E t \in DebounceTimers : t.index = i /\ Expired(t)
    \/ /\ State(i) = "Committing"
       /\ State(i)' = "Idle"
       /\ \E r \in Commands : r.index = i /\ (Resolved(r) \/ Thrown(r))

\* C30 as stated: a receiver with a client only moves Idle -> Debouncing on
\* a request, Debouncing -> Committing when its timer elapses and Committing
\* -> Idle when its command completes or fails; and, timers running and
\* requests being answered, it always returns to Idle.
C30_StateMachine ==
    /\ [][\A i \in DOMAIN clients : State(i)' = State(i) \/ Moves(i)]_vars
    /\ \A i \in {0} : (State(i) # "Idle") ~> (State(i) = "Idle")

\* C30 amended: a receiver with a client moves Idle -> Debouncing on a
\* request, Debouncing -> Committing when its timer elapses, or Debouncing ->
\* Idle when that timer is the one of a relative_step of 0 (no command is
\* sent), Committing -> Idle when its command completes or fails, and
\* Committing -> Debouncing when a request arrives while a command is in
\* flight; and, timers running and requests being answered, it always returns
\* to Idle.
C30_StateMachineWithShortcuts ==
    /\ [][\A i \in DOMAIN clients :
              \/ State(i)' = State(i)
              \/ Moves(i)
              \/ /\ State(i) = "Debouncing"
                 /\ State(i)' = "Idle"
                 /\ \E t \in DebounceTimers :
                       /\ t.index = i
                       /\ Expired(t)
                       /\ t.mode = "relative_step"
                       /\ t.value = 0
              \/ State(i) = "Committing" /\ State(i)' = "Debouncing" /\ RequestStep]_vars
    /\ \A i \in {0} : (State(i) # "Idle") ~> (State(i) = "Idle")

\* the receiver is back to Idle after an absolute command that failed and a
\* step of 0 that sent nothing and left its 500 ms poll scheduled
C30_Witness ==
    /\ State(0) = "Idle"
    /\ errors[0].absolute = 1
    /\ calls.requests = 2
    /\ Count(timers, PollTimer(0, 500, "")) = 1

-----------------------------------------------------------------------------
(* C31 *)

\* C31: the step in which a status request of a client is answered with the
\* report of the receiver leaves the parsed volume in the cache and shows it
\* to the host exactly when it is known and differs from the cached volume,
\* and otherwise leaves both as they were; likewise for the parsed mute; and
\* as long as no status request of the client has been answered with a
\* report, its index is shown no mute change, and a volume only by the
\* completion of a command.
C31_ChangeNotification ==
    [][\A c \in DOMAIN heap \cap DOMAIN heap' :
          LET i == c[2]
              volume == parseVolume(reported.volume)
              mute == (reported.mute = "on")
              polled == PollAnswered(c) /\ errors' = errors
          IN  /\ polled =>
                    /\ IF volume # null /\ volume # heap[c].currentVolume
                       THEN /\ heap'[c].currentVolume = volume
                            /\ volumeControls'[i].volume_value = volume[1]
                       ELSE /\ heap'[c].currentVolume = heap[c].currentVolume
                            /\ volumeControls'[i].volume_value =
                                   volumeControls[i].volume_value
                    /\ IF Bool(mute) # heap[c].currentMute
                       THEN /\ heap'[c].currentMute = Bool(mute)
                            /\ volumeControls'[i].is_muted = mute
                       ELSE /\ heap'[c].currentMute = heap[c].currentMute
                            /\ volumeControls'[i].is_muted = volumeControls[i].is_muted
              /\ heap[c].currentMute = null /\ ~polled =>
                    /\ volumeControls'[i].is_muted = volumeControls[i].is_muted
                    /\ volumeControls'[i].volume_value # volumeControls[i].volume_value =>
                           \E r \in Commands : Resolved(r)]_vars

\* no request was made, polls have found -20 dB and the mute on and the host
\* is shown both, and the receiver has been turned down to "--" since
C31_Witness ==
    /\ calls.requests = 0
    /\ heap[clients[0]].currentVolume = Num(600)
    /\ heap[clients[0]].currentMute = Bool(TRUE)
    /\ volumeControls[0].volume_value = 600
    /\ volumeControls[0].is_muted
    /\ reported.volume = StringValue(<<"-", "-">>)
    /\ StatusRequests(clients[0]) > 0

-----------------------------------------------------------------------------
(* C32 *)

\* C32: a set_volume or set_mute call changes no settings, client, cache,
\* host state or error count; what it sends, the timer it arms and the timer
\* it cancels are of an index that holds a client, and it sends to that
\* client; the debounce map and the requests on record keep to such indexes;
\* so a call for an index that holds no client, before any initialization or
\* after destroy(), sends nothing, arms and cancels no timer and changes
\* nothing.
C32_NoClientNoEffect ==
    [][RequestStep =>
          /\ UNCHANGED <<settings, clients, volumeControls, heap, errors>>
          /\ http (-) http' = EmptyBag
          /\ \A r \in BagToSet(Sent) :
                Has(clients, r.index) /\ r.client = clients[r.index]
          /\ \A t \in BagToSet(TimersSet) \cup BagToSet(timers (-) timers') :
                Has(clients, t.index)
          /\ DOMAIN volumeDebounceTimers' \subseteq DOMAIN clients
          /\ DOMAIN burst' \subseteq DOMAIN clients
          /\ clients = <<>> =>
                UNCHANGED <<timers, http, volumeDebounceTimers, burst>>]_vars

\* never initialized, the host has called set_volume twice and set_mute once:
\* nothing is pending
C32_Witness ==
    /\ calls = [lifecycle |-> 0, requests |-> 2, mutes |-> 1]
    /\ clients = <<>>
    /\ timers = EmptyBag
    /\ http = EmptyBag
    /\ volumeDebounceTimers = <<>>

-----------------------------------------------------------------------------
(* C33 *)

\* C33 as stated: an absolute or relative command whose client the
\* coordinator holds no more, because initialize() has rebuilt the arrays
\* since the command was sent, leaves on completion the host state of the
\* control at its index as it is.
C33_StaleCommandDropped ==
    [][\A r \in Commands :
          /\ r.cmd = "MV"
          /\ ~Held(r.client)
          /\ Has(volumeControls, r.index)
          /\ Resolved(r)
          => volumeControls'[r.index] = volumeControls[r.index]]_vars

-----------------------------------------------------------------------------
(* C34 *)

\* C34 as stated: the step in which a status request gets its answer, be it
\* a report or a failure, after the coordinator has destroyed the client
\* that sent it, rejects no promise (nothing is thrown) and changes nothing
\* the host is shown.
C34_PollAfterTeardownIsQuiet ==
    [][\A c \in DOMAIN heap :
          PollAnswered(c) /\ ~heap[c].listeners =>
              /\ errors'[c[2]].rejected = errors[c[2]].rejected
              /\ volumeControls' = volumeControls]_vars

-----------------------------------------------------------------------------
(* One receiver, paired, set to half steps of its range that it then reports *)

\* absolute requests of 0, 50.5, 80 and 98; the receiver reports "--",
\* -29.5 dB, 0 dB or +18 dB and may be turned from one to another
EchoInit ==
    /\ Paired([calls |-> RecoveryCalls, polls |-> LivePolls, faults |-> RecoveryFaults,
               slots |-> {1},
               bodies |-> {[mode |-> "absolute", value |-> v] :
                              v \in {10 * volume_min, 505, 800, 10 * volume_max}},
               reports |-> {[volume |-> StringValue(<<"-", "-">>), mute |-> "off"]}
                              \cup {[volume |-> NumberValue(d), mute |-> "on"] :
                                       d \in {-295, 0, 180}}],
              [receiver_count |-> 1, ip_address |-> {1}])
    /\ reported \in limits.reports
    /\ codec = <<>>

EchoSpec == EchoInit /\ [][RecoveryNext]_vars

-----------------------------------------------------------------------------
(* C35 *)

\* C35: an absolute command that completes for the client the coordinator
\* holds leaves its target v in the cache of the client and shown to the
\* host; and a status answer that reports the volume the cache holds changes
\* neither the cached volume (no volumeChanged is emitted) nor the volume
\* shown to the host: as long as nothing else has written the cache since
\* the command, a poll that reports v is no change.
C35_NoEchoOfCommand ==
    [][/\ \A r \in Commands :
              r.mode = "absolute" /\ Held(r.client) /\ Resolved(r) =>
                  /\ heap'[r.client].currentVolume = r.target
                  /\ volumeControls'[r.index].volume_value = r.target[1]
       /\ \A c \in DOMAIN heap :
              /\ Held(c)
              /\ PollAnswered(c)
              /\ errors' = errors
              /\ heap[c].currentVolume = Num(Display(reported))
              => /\ heap'[c].currentVolume = heap[c].currentVolume
                 /\ volumeControls'[c[2]].volume_value =
                        volumeControls[c[2]].volume_value]_vars

\* the one request, absolute 50.5, has completed and its confirming poll is
\* scheduled; the receiver reports -29.5 dB, muted, and the polls answered so
\* far have left 50.5 in the cache and shown to the host
C35_Witness ==
    /\ Count(timers, PollTimer(0, 1000, "MV")) = 1
    /\ errors[0].absolute = 0
    /\ reported = [volume |-> NumberValue(-295), mute |-> "on"]
    /\ StatusRequests(clients[0]) = 0
    /\ heap[clients[0]].currentVolume = Num(505)
    /\ heap[clients[0]].currentMute = Bool(TRUE)
    /\ volumeControls[0] = [volume_value |-> 505, is_muted |-> TRUE, control_key |-> 1]

-----------------------------------------------------------------------------
(* C36 *)

\* C36: a set_mute call and the completion of its command, resolved or
\* thrown, write no cache and nothing the host is shown and leave every
\* timer and the debounce map as they were; the call sends no status request
\* and the completion sends nothing; and is_muted of a control changes only
\* in a step in which a status request of its client is answered and changes
\* the cached mute, to the value then cached.
C36_MuteFrame ==
    [][/\ MuteStep =>
              /\ CachesKept
              /\ timers' = timers
              /\ volumeDebounceTimers' = volumeDebounceTimers
              /\ \A r \in BagToSet(Sent) : r.cmd # "STATUS"
       /\ \A r \in Commands :
              r.mode = "mute" /\ (Resolved(r) \/ Thrown(r)) =>
                  /\ CachesKept
                  /\ timers' = timers
                  /\ volumeDebounceTimers' = volumeDebounceTimers
                  /\ Sent = EmptyBag
       /\ \A i \in DOMAIN volumeControls :
              volumeControls'[i].is_muted # volumeControls[i].is_muted =>
                  /\ PollAnswered(clients[i])
                  /\ heap'[clients[i]].currentMute # heap[clients[i]].currentMute
                  /\ heap'[clients[i]].currentMute = Bool(volumeControls'[i].is_muted)]_vars

\* two mute commands have completed, one resolved and one thrown, before any
\* status request was answered: nothing is cached, nothing is scheduled and
\* the host is shown what was registered
C36_Witness ==
    /\ calls.mutes = 2
    /\ errors[0].mute = 1
    /\ Commands = {}
    /\ timers = EmptyBag
    /\ heap[clients[0]].currentVolume = null
    /\ heap[clients[0]].currentMute = null
    /\ volumeControls[0] = [volume_value |-> 0, is_muted |-> FALSE, control_key |-> 1]

=============================================================================
